---- MODULE Spec2Model ----
(***************************************************************************)
(* Model of anathema's BorderLayout::layout (anathema-widgets) and of the  *)
(* ValueRef inspection / conversion functions (anathema-values).           *)
(***************************************************************************)
EXTENDS Integers, Sequences, FiniteSets, TLC

\* ---------------------------------------------------------------------------
\*   - Bounds -
\* ---------------------------------------------------------------------------
MaxDim == 2
MaxCfg == 2
MaxBorder == 1

\* ---------------------------------------------------------------------------
\*   - Option / Result encodings -
\* ---------------------------------------------------------------------------
None == <<>>
Some(n) == <<n>>
IsSome(o) == Len(o) = 1
Unwrap(o) == o[1]

OptionOf(S) == {None} \cup {Some(n) : n \in S}

VARIABLES
    cfg,                \* the BorderLayout struct
    incoming,           \* nodes.constraints of the current pass
    constraints,        \* the outer `constraints` local (after lines 18-37)
    child_constraints,  \* the constraints handed to node.layout
    child_calls,        \* number of node.layout invocations in this pass
    child_result,       \* what node.layout returned
    pc,                 \* "idle" | "child" | "done"
    result,             \* return value of BorderLayout::layout
    lhs, rhs,           \* ValueRef operands
    target,             \* requested extraction target
    vop,                \* which ValueRef operation produced vres
    vres                \* its result

vars == <<cfg, incoming, constraints, child_constraints, child_calls, child_result,
          pc, result,
          lhs, rhs, target, vop, vres>>

\* ---------------------------------------------------------------------------
\*   - Size / Constraints -
\* ---------------------------------------------------------------------------
Size(w, h) == [width |-> w, height |-> h]
SizeZERO == Size(0, 0)

size_add(a, b) == Size(a.width + b.width, a.height + b.height)

Constraints(minw, maxw, minh, maxh) ==
    [min_width |-> minw, max_width |-> maxw, min_height |-> minh, max_height |-> maxh]

ConstraintsZERO == Constraints(0, 0, 0, 0)

usize_min(a, b) == IF a < b THEN a ELSE b

usize_max(a, b) == IF a > b THEN a ELSE b

make_width_tight(c, width) ==
    LET w == usize_min(c.max_width, width)
    IN  [c EXCEPT !.max_width = w, !.min_width = w]

make_height_tight(c, height) ==
    LET h == usize_min(c.max_height, height)
    IN  [c EXCEPT !.max_height = h, !.min_height = h]

\* mutants of checked_sub: the distance instead of the checked difference, and
\* a subtraction that is checked but never applied
checked_sub_abs_diff(a, b) == IF a >= b THEN Some(a - b) ELSE Some(b - a)
checked_sub_not_applied(a, b) == IF a >= b THEN Some(a) ELSE None

checked_sub(a, b) == IF a >= b THEN Some(a - b) ELSE None

Ok(v) == [ok |-> TRUE, val |-> v]
Err == [ok |-> FALSE, val |-> "InsufficientSpaceAvailble"]
NoResult == [ok |-> FALSE, val |-> "pending"]

\* ---------------------------------------------------------------------------
\*   - BorderLayout::layout -
\* ---------------------------------------------------------------------------
BorderLayout(minw, minh, w, h, b) ==
    [min_width |-> minw, min_height |-> minh, width |-> w, height |-> h, border_size |-> b]

\* lines 20-26: raise a minimum to the configured minimum
raise_min(cur, opt) == IF IsSome(opt) THEN usize_max(cur, Unwrap(opt)) ELSE cur

\* lines 18-37: the outer `constraints`
adjust(self, c) ==
    LET c1 == [c EXCEPT !.min_width = raise_min(c.min_width, self.min_width)]
        c2 == [c1 EXCEPT !.min_height = raise_min(c1.min_height, self.min_height)]
        c3 == IF IsSome(self.width) THEN make_width_tight(c2, Unwrap(self.width)) ELSE c2
        c4 == IF IsSome(self.height) THEN make_height_tight(c3, Unwrap(self.height)) ELSE c3
    IN  c4

\* mutant of is_zero: the early return is never taken
is_zero_never(c) == FALSE

\* line 39
is_zero(c) == c = ConstraintsZERO

\* mutant of clamp_min: the minimum is left above the maximum
clamp_min_keep(min, max) == min

\* lines 60-66
clamp_min(min, max) == IF min > max THEN max ELSE min

\* line 68
no_room(c) == c.max_width = 0 \/ c.max_height = 0

\* lines 49-70: the closure up to the child call; Err or Ok(child constraints)
shrink(c, border_size) ==
    LET w == checked_sub(c.max_width, border_size.width)
        h == checked_sub(c.max_height, border_size.height)
    IN  IF ~IsSome(w) THEN Err
        ELSE IF ~IsSome(h) THEN Err
        ELSE LET c1 == [c EXCEPT !.max_width = Unwrap(w), !.max_height = Unwrap(h)]
                 c2 == [c1 EXCEPT !.min_width = clamp_min(c1.min_width, c1.max_width)]
                 c3 == [c2 EXCEPT !.min_height = clamp_min(c2.min_height, c2.max_height)]
             IN  IF no_room(c3) THEN Err ELSE Ok(c3)

\* mutant of inner_to_size: the border is not added back
inner_to_size_no_border(self, inner_size) ==
    LET s1 == [inner_size EXCEPT !.width = raise_min(inner_size.width, self.min_width)]
        s2 == [s1 EXCEPT !.height = raise_min(s1.height, self.min_height)]
    IN  s2

\* lines 74-82: size inside the closure after the child returned
inner_to_size(self, inner_size) ==
    LET s0 == size_add(inner_size, self.border_size)
        s1 == [s0 EXCEPT !.width = raise_min(s0.width, self.min_width)]
        s2 == [s1 EXCEPT !.height = raise_min(s1.height, self.min_height)]
    IN  s2

\* mutant of finish: the size is returned without the final raise
finish_no_raise(size, c) == size

\* lines 87-90
finish(size, c) ==
    Size(usize_max(size.width, c.min_width), usize_max(size.height, c.min_height))

Dims == 0..MaxDim
\* incoming constraints are well formed: min <= max on each axis
ConstraintsSet ==
    { Constraints(a, b, c, d) : a \in Dims, b \in Dims, c \in Dims, d \in Dims }
      \ { c \in [min_width : Dims, max_width : Dims, min_height : Dims, max_height : Dims] :
             c.min_width > c.max_width \/ c.min_height > c.max_height }
Configs ==
    { BorderLayout(a, b, c, d, Size(bw, bh)) :
        a \in OptionOf(0..MaxCfg), b \in OptionOf(0..MaxCfg),
        c \in OptionOf(0..MaxCfg), d \in OptionOf(0..MaxCfg),
        bw \in 0..MaxBorder, bh \in 0..MaxBorder }
ChildSizes == { Size(w, h) : w \in Dims, h \in Dims }

\* LayoutNodes::next: a border has exactly one child, so the closure runs once
next_yields_child == TRUE

\* lines 15-72: entry of layout up to the ZERO return, the error return or
\* the call of the child's layout
LayoutBegin(c) ==
    /\ pc = "idle"
    /\ incoming' = c
    /\ constraints' = adjust(cfg, c)
    /\ IF is_zero(constraints')
         THEN /\ result' = Ok(SizeZERO)
              /\ pc' = "done"
              /\ UNCHANGED <<child_constraints, child_calls>>
         ELSE IF ~next_yields_child
         THEN /\ result' = Ok(finish(SizeZERO, constraints'))
              /\ pc' = "done"
              /\ UNCHANGED <<child_constraints, child_calls>>
         ELSE LET cc == shrink(constraints', cfg.border_size)
              IN  IF cc.ok
                    THEN /\ child_constraints' = cc.val
                         /\ child_calls' = child_calls + 1
                         /\ pc' = "child"
                         /\ UNCHANGED result
                    ELSE /\ result' = Err
                         /\ pc' = "done"
                         /\ UNCHANGED <<child_constraints, child_calls>>
    /\ UNCHANGED <<cfg, child_result, lhs, rhs, target, vop, vres>>

\* lines 72-90: the child returned Ok(inner_size)
ChildOk(inner_size) ==
    /\ pc = "child"
    /\ child_result' = Ok(inner_size)
    /\ result' = Ok(finish(inner_to_size(cfg, inner_size), constraints))
    /\ pc' = "done"
    /\ UNCHANGED <<cfg, incoming, constraints, child_constraints, child_calls,
                   lhs, rhs, target, vop, vres>>

\* mutant of ChildErr: the error of the closure is dropped and the pass
\* returns the size accumulated so far
ChildErrSwallowed ==
    /\ pc = "child"
    /\ child_result' = Err
    /\ result' = Ok(finish(SizeZERO, constraints))
    /\ pc' = "done"
    /\ UNCHANGED <<cfg, incoming, constraints, child_constraints, child_calls,
                   lhs, rhs, target, vop, vres>>

\* lines 72, 85: the child failed; `?` propagates the error
ChildErr ==
    /\ pc = "child"
    /\ child_result' = Err
    /\ result' = Err
    /\ pc' = "done"
    /\ UNCHANGED <<cfg, incoming, constraints, child_constraints, child_calls,
                   lhs, rhs, target, vop, vres>>

\* ---------------------------------------------------------------------------
\*   - ValueRef -
\* ---------------------------------------------------------------------------
MaxStrLen == 1
MaxNum == 5
MaxHandle == 2

\* Num: Signed(i64) | Unsigned(u64) | Float(f64); a float is the integer-valued
\* float n.0, or NaN when nan is set
Signed(n) == [num |-> "Signed", n |-> n, nan |-> FALSE]
Unsigned(n) == [num |-> "Unsigned", n |-> n, nan |-> FALSE]
Float(n) == [num |-> "Float", n |-> n, nan |-> FALSE]
FloatNaN == [num |-> "Float", n |-> 0, nan |-> TRUE]

\* Owned: Bool | Char | Color | Num.  Only the field of the active variant is
\* meaningful; the others hold a fixed filler.
OwnedBool(b) == [kind |-> "Bool", b |-> b, c |-> "", num |-> Signed(0)]
OwnedChar(c) == [kind |-> "Char", b |-> FALSE, c |-> c, num |-> Signed(0)]
OwnedColor(c) == [kind |-> "Color", b |-> FALSE, c |-> c, num |-> Signed(0)]
OwnedNum(n) == [kind |-> "Num", b |-> FALSE, c |-> "", num |-> n]

\* ValueRef: Str | Map | List | Expressions | ExpressionMap | Owned | Deferred | Empty
\* Only the field of the active tag is meaningful: s for Str, o for Owned, h
\* (the identity of the borrowed object) for Map, List, Expressions and
\* ExpressionMap.
Str(s) == [tag |-> "Str", s |-> s, o |-> OwnedBool(FALSE), h |-> 0]
Map(h) == [tag |-> "Map", s |-> <<>>, o |-> OwnedBool(FALSE), h |-> h]
List(h) == [tag |-> "List", s |-> <<>>, o |-> OwnedBool(FALSE), h |-> h]
Expressions(h) == [tag |-> "Expressions", s |-> <<>>, o |-> OwnedBool(FALSE), h |-> h]
ExpressionMap(h) == [tag |-> "ExpressionMap", s |-> <<>>, o |-> OwnedBool(FALSE), h |-> h]
Owned(o) == [tag |-> "Owned", s |-> <<>>, o |-> o, h |-> 0]
Deferred == [tag |-> "Deferred", s |-> <<>>, o |-> OwnedBool(FALSE), h |-> 0]
Empty == [tag |-> "Empty", s |-> <<>>, o |-> OwnedBool(FALSE), h |-> 0]

Alphabet == {"x", "5"}
Strings == UNION { [1..k -> Alphabet] : k \in 0..MaxStrLen }
SignedNums == (-MaxNum..MaxNum) \cup {-200}
UnsignedNums == (0..MaxNum) \cup {300}
Nums == {Signed(n) : n \in SignedNums} \cup {Unsigned(n) : n \in UnsignedNums}
          \cup {Float(n) : n \in {-1, 0, 2}} \cup {FloatNaN}
Owneds == {OwnedBool(b) : b \in BOOLEAN} \cup {OwnedChar(c) : c \in {"a", "b"}}
          \cup {OwnedColor(c) : c \in {"Red", "Blue"}} \cup {OwnedNum(n) : n \in Nums}
Handles == 1..MaxHandle
Values ==
    {Str(s) : s \in Strings} \cup {Owned(o) : o \in Owneds}
      \cup {Map(h) : h \in Handles} \cup {List(h) : h \in Handles}
      \cup {Expressions(h) : h \in Handles} \cup {ExpressionMap(h) : h \in Handles}
      \cup {Deferred, Empty}

IsOwned(value, kind) == value.tag = "Owned" /\ value.o.kind = kind
IsNum(value, num) == IsOwned(value, "Num") /\ value.o.num.num = num

\* mutant of is_true: zero counts as true
is_true_non_negative(self) ==
    IF self.tag = "Str" THEN Len(self.s) # 0
    ELSE IF IsOwned(self, "Bool") THEN self.o.b
    ELSE IF IsNum(self, "Unsigned") THEN self.o.num.n >= 0
    ELSE IF IsNum(self, "Signed") THEN self.o.num.n >= 0
    ELSE FALSE

\* ValueRef::is_true
is_true(self) ==
    IF self.tag = "Str" THEN Len(self.s) # 0
    ELSE IF IsOwned(self, "Bool") THEN self.o.b
    ELSE IF IsNum(self, "Unsigned") THEN self.o.num.n > 0
    ELSE IF IsNum(self, "Signed") THEN self.o.num.n > 0
    ELSE FALSE

\* f64 == f64: NaN is unequal to everything
num_eq(a, b) ==
    /\ a.num = b.num
    /\ ~a.nan /\ ~b.nan
    /\ a.n = b.n

\* derived PartialEq of Owned
owned_eq(a, b) ==
    /\ a.kind = b.kind
    /\ CASE a.kind = "Bool" -> a.b = b.b
         [] a.kind = "Num" -> num_eq(a.num, b.num)
         [] OTHER -> a.c = b.c

\* mutant of value_eq: a derived, structural equality
value_eq_structural(self, other) ==
    IF self.tag = "Owned" /\ other.tag = "Owned" THEN owned_eq(self.o, other.o)
    ELSE self = other

\* PartialEq for ValueRef
value_eq(self, other) ==
    IF self.tag = "Str" /\ other.tag = "Str" THEN self.s = other.s
    ELSE IF self.tag = "Owned" /\ other.tag = "Owned" THEN owned_eq(self.o, other.o)
    ELSE FALSE

UnsignedTargets == {"usize", "u64", "u32", "u16", "u8"}
SignedTargets == {"isize", "i64", "i32", "i16", "i8"}
IntTargets == UnsignedTargets \cup SignedTargets
FloatTargets == {"f64", "f32"}
ValTargets == {"bool", "Color", "char"}
StrTargets == {"String", "&str"}
Targets == ValTargets \cup IntTargets \cup FloatTargets \cup StrTargets

\* bit width of an integer target (usize / isize on a 64-bit platform)
Bits(t) ==
    IF t \in {"u8", "i8"} THEN 8
    ELSE IF t \in {"u16", "i16"} THEN 16
    ELSE IF t \in {"u32", "i32"} THEN 32
    ELSE 64

\* `num as $t` for an integer target: two's complement truncation.  The
\* result is pow2 * 2^Bits(t) + off, so that the wide targets need no 2^64.
as_int(t, n) ==
    IF Bits(t) <= 16
      THEN LET m == 2 ^ Bits(t)
               u == n % m
           IN  IF t \in SignedTargets /\ u >= m \div 2
                 THEN [pow2 |-> 0, off |-> u - m]
                 ELSE [pow2 |-> 0, off |-> u]
      ELSE IF t \in UnsignedTargets /\ n < 0
             THEN [pow2 |-> 1, off |-> n]
             ELSE [pow2 |-> 0, off |-> n]

ConvOk(v) == [ok |-> TRUE, val |-> v]
ConvErr == [ok |-> FALSE, val |-> <<>>]

\* mutant of num_try_from: only the variant named in the macro call is accepted
num_try_from_strict(t, value) ==
    IF t \in SignedTargets /\ IsNum(value, "Signed") THEN ConvOk(as_int(t, value.o.num.n))
    ELSE IF t \in UnsignedTargets /\ IsNum(value, "Unsigned")
      THEN ConvOk(as_int(t, value.o.num.n))
    ELSE ConvErr

\* num_try_from!
num_try_from(t, value) ==
    IF IsNum(value, "Signed") THEN ConvOk(as_int(t, value.o.num.n))
    ELSE IF IsNum(value, "Unsigned") THEN ConvOk(as_int(t, value.o.num.n))
    ELSE ConvErr

\* float_try_from!; the sampled floats are exact in f32 as well
float_try_from(t, value) ==
    IF IsNum(value, "Float") THEN ConvOk(value.o.num)
    ELSE ConvErr

ValIdent(t) == IF t = "bool" THEN "Bool" ELSE IF t = "char" THEN "Char" ELSE "Color"

\* val_try_from!
val_try_from(t, value) ==
    IF IsOwned(value, ValIdent(t))
      THEN ConvOk(IF t = "bool" THEN value.o.b ELSE value.o.c)
    ELSE ConvErr

\* TryFrom<ValueRef> for String and for &str
str_try_from(t, value) ==
    IF value.tag = "Str" THEN ConvOk(value.s)
    ELSE ConvErr

try_from(t, value) ==
    IF t \in ValTargets THEN val_try_from(t, value)
    ELSE IF t \in IntTargets THEN num_try_from(t, value)
    ELSE IF t \in FloatTargets THEN float_try_from(t, value)
    ELSE str_try_from(t, value)

IsTrue ==
    /\ vop = "none"
    /\ vop' = "is_true"
    /\ vres' = is_true(lhs)
    /\ UNCHANGED <<lhs, rhs, target, cfg, incoming, constraints, child_constraints,
                   child_calls, child_result, pc, result>>

Eq ==
    /\ vop = "none"
    /\ vop' = "eq"
    /\ vres' = value_eq(lhs, rhs)
    /\ UNCHANGED <<lhs, rhs, target, cfg, incoming, constraints, child_constraints,
                   child_calls, child_result, pc, result>>

TryFrom(t) ==
    /\ vop = "none"
    /\ vop' = "try_from"
    /\ target' = t
    /\ vres' = try_from(t, lhs)
    /\ UNCHANGED <<lhs, rhs, cfg, incoming, constraints, child_constraints,
                   child_calls, child_result, pc, result>>

ValueInit ==
    /\ lhs \in Values
    /\ rhs \in Values
    /\ target = "none" /\ vop = "none" /\ vres = 0
    /\ cfg = BorderLayout(None, None, None, None, SizeZERO)
    /\ incoming = ConstraintsZERO
    /\ constraints = ConstraintsZERO
    /\ child_constraints = ConstraintsZERO
    /\ child_calls = 0
    /\ child_result = NoResult
    /\ pc = "idle"
    /\ result = NoResult

ValueNext ==
    \/ IsTrue
    \/ Eq
    \/ \E t \in Targets : TryFrom(t)

ValueSpec == ValueInit /\ [][ValueNext]_vars

\* ---------------------------------------------------------------------------
\*   - Layout pass specification -
\* ---------------------------------------------------------------------------
Init ==
    /\ cfg \in Configs
    /\ incoming = ConstraintsZERO
    /\ constraints = ConstraintsZERO
    /\ child_constraints = ConstraintsZERO
    /\ child_calls = 0
    /\ child_result = NoResult
    /\ pc = "idle"
    /\ result = NoResult
    /\ lhs = Empty /\ rhs = Empty /\ target = "none" /\ vop = "none" /\ vres = 0

Next ==
    \/ \E c \in ConstraintsSet : LayoutBegin(c)
    \/ \E s \in ChildSizes : ChildOk(s)
    \/ ChildErr

Spec == Init /\ [][Next]_vars

\* ---------------------------------------------------------------------------
\*   - Properties of BorderLayout::layout -
\* ---------------------------------------------------------------------------
IsErr(r) == ~r.ok /\ r.val = "InsufficientSpaceAvailble"
IsOkSize(r, sz) == r.ok /\ r.val = sz
Entered == pc # "idle"
Returned == pc = "done"
BorderExceedsMax ==
    \/ cfg.border_size.width > constraints.max_width
    \/ cfg.border_size.height > constraints.max_height
OptOr0(o) == IF IsSome(o) THEN Unwrap(o) ELSE 0
ChildWithinConstraints ==
    /\ child_result.ok
    /\ child_result.val.width >= child_constraints.min_width
    /\ child_result.val.width <= child_constraints.max_width
    /\ child_result.val.height >= child_constraints.min_height
    /\ child_result.val.height <= child_constraints.max_height

\* C1 (as stated): whenever border_size exceeds the adjusted max on an axis,
\* layout returns the insufficient-space error and the child is not invoked.
C1_AsStated ==
    (Entered /\ BorderExceedsMax) => (IsErr(result) /\ child_calls = 0)

\* C1 (amended): whenever border_size exceeds the adjusted max on an axis the
\* child is never invoked, and layout returns the insufficient-space error
\* unless the adjusted constraints equal Constraints::ZERO, in which case it
\* returns Ok(Size::ZERO).
C1_BorderTooLarge ==
    (Entered /\ BorderExceedsMax) =>
        /\ Returned
        /\ child_calls = 0
        /\ IF constraints = ConstraintsZERO
             THEN IsOkSize(result, SizeZERO)
             ELSE IsErr(result)

C1_Witness ==
    /\ Returned /\ IsErr(result) /\ child_calls = 0
    /\ cfg.border_size.width > constraints.max_width
    /\ constraints.max_height > cfg.border_size.height

\* C2: whenever the child's layout is invoked its constraints have
\* max_width >= 1, max_height >= 1, min_width <= max_width and
\* min_height <= max_height; and when the pass gets to subtracting
\* border_size and that leaves a max of exactly 0 on an axis, the pass fails
\* with the insufficient-space error and the child is not invoked.
C2_ChildRegionNonEmpty ==
    /\ child_calls > 0 =>
        /\ child_constraints.max_width >= 1
        /\ child_constraints.max_height >= 1
        /\ child_constraints.min_width <= child_constraints.max_width
        /\ child_constraints.min_height <= child_constraints.max_height
    /\ ( /\ Entered
         /\ constraints # ConstraintsZERO
         /\ \/ constraints.max_width = cfg.border_size.width
            \/ constraints.max_height = cfg.border_size.height )
       => (Returned /\ IsErr(result) /\ child_calls = 0)

C2_Witness ==
    /\ pc = "child"
    /\ constraints.min_width > constraints.max_width - cfg.border_size.width
    /\ child_constraints.min_width = child_constraints.max_width
    /\ cfg.border_size.width > 0

\* C3 (as stated): with incoming constraints ZERO, for every configuration,
\* layout returns Ok(Size::ZERO) and the child is not invoked.
C3_AsStated ==
    (Entered /\ incoming = ConstraintsZERO) =>
        (IsOkSize(result, SizeZERO) /\ child_calls = 0)

AxisStaysZero(min, fixed) == IsSome(fixed) \/ OptOr0(min) = 0

\* C3 (amended): with incoming constraints ZERO the child is never invoked;
\* layout returns Ok(Size::ZERO) when on each axis the configured minimum is
\* unset or 0 or a fixed size is configured (the adjusted constraints are
\* then still ZERO), and the insufficient-space error otherwise.
C3_ZeroIncoming ==
    (Entered /\ incoming = ConstraintsZERO) =>
        /\ Returned
        /\ child_calls = 0
        /\ IF /\ AxisStaysZero(cfg.min_width, cfg.width)
              /\ AxisStaysZero(cfg.min_height, cfg.height)
             THEN IsOkSize(result, SizeZERO)
             ELSE IsErr(result)

C3_Witness ==
    /\ Returned /\ incoming = ConstraintsZERO
    /\ IsOkSize(result, SizeZERO) /\ child_calls = 0
    /\ cfg.border_size.width > 0
    /\ IsSome(cfg.min_width) /\ IsSome(cfg.width)

LaidOutOk == Returned /\ result.ok /\ child_calls = 1

\* C4 (as stated): on every successful pass in which the child was laid out,
\* the returned size is at least the incoming constraints' minimums and at
\* least the configured minimums.
C4_AsStated ==
    LaidOutOk =>
        /\ result.val.width >= incoming.min_width
        /\ result.val.height >= incoming.min_height
        /\ result.val.width >= OptOr0(cfg.min_width)
        /\ result.val.height >= OptOr0(cfg.min_height)

\* C4 (amended): on every successful pass in which the child was laid out,
\* the returned size is at least the configured minimums and at least the
\* minimums of the adjusted constraints (after minimum-raising and
\* tightening); it is at least the incoming minimum on every axis that has
\* no fixed size configured.
C4_MinimumsWin ==
    LaidOutOk =>
        /\ result.val.width >= OptOr0(cfg.min_width)
        /\ result.val.height >= OptOr0(cfg.min_height)
        /\ result.val.width >= constraints.min_width
        /\ result.val.height >= constraints.min_height
        /\ ~IsSome(cfg.width) => result.val.width >= incoming.min_width
        /\ ~IsSome(cfg.height) => result.val.height >= incoming.min_height

C4_Witness ==
    /\ LaidOutOk
    /\ ~IsSome(cfg.width) /\ ~IsSome(cfg.min_width)
    /\ child_result.val.width + cfg.border_size.width < incoming.min_width
    /\ result.val.width = incoming.min_width

\* C5: in one pass the child's layout is invoked at most once; it has been
\* invoked exactly once in every pass that returns a size without taking the
\* ZERO short-circuit; a pass ending in the insufficient-space error invoked
\* the child zero times or once, and an error of the child is the result of
\* the pass.
C5_ChildOncePerPass ==
    /\ child_calls \in {0, 1}
    /\ (Returned /\ result.ok /\ constraints # ConstraintsZERO) =>
          (child_calls = 1 /\ child_result.ok)
    /\ (Returned /\ result.ok /\ constraints = ConstraintsZERO) => child_calls = 0
    /\ IsErr(child_result) => (Returned /\ IsErr(result) /\ child_calls = 1)
    /\ Returned => (result.ok \/ IsErr(result))

C5_Witness ==
    Returned /\ IsErr(child_result) /\ IsErr(result) /\ child_calls = 1

NoOverrides ==
    /\ ~IsSome(cfg.min_width) /\ ~IsSome(cfg.min_height)
    /\ ~IsSome(cfg.width) /\ ~IsSome(cfg.height)

C6_Pre ==
    /\ Entered
    /\ NoOverrides
    /\ incoming.min_width = 0 /\ incoming.min_height = 0
    /\ cfg.border_size.width < incoming.max_width
    /\ cfg.border_size.height < incoming.max_height

\* C6: with no overrides and incoming minimums 0, whenever border_size is
\* strictly smaller than the incoming max on both axes, the child receives
\* the incoming max minus border_size on each axis and layout returns exactly
\* the child's size plus border_size.
C6_InsetAndAddBack ==
    C6_Pre =>
        /\ child_calls = 1
        /\ child_constraints.max_width = incoming.max_width - cfg.border_size.width
        /\ child_constraints.max_height = incoming.max_height - cfg.border_size.height
        /\ (Returned /\ child_result.ok) =>
              IsOkSize(result, Size(child_result.val.width + cfg.border_size.width,
                                    child_result.val.height + cfg.border_size.height))

C6_Witness ==
    /\ C6_Pre /\ Returned
    /\ cfg.border_size = Size(1, 1)
    /\ incoming.max_width = 2 /\ incoming.max_height = 2
    /\ child_result.ok /\ child_result.val = Size(1, 1)
    /\ IsOkSize(result, Size(2, 2))

\* C10 (as stated): if the child returns a size within its constraints, the
\* returned size exceeds neither the incoming max nor the tightened max.
C10_AsStated ==
    (LaidOutOk /\ ChildWithinConstraints) =>
        /\ result.val.width <= incoming.max_width
        /\ result.val.height <= incoming.max_height
        /\ result.val.width <= constraints.max_width
        /\ result.val.height <= constraints.max_height

usize_max3(a, b, c) == usize_max(a, usize_max(b, c))

\* C10 (amended): if the child returns a size within its constraints, then
\* on each axis the returned size does not exceed the largest of the adjusted
\* (tightened) max, the adjusted min and the configured min; so it stays
\* within the adjusted max, and hence the incoming max, on every axis where
\* neither the configured nor the adjusted minimum is larger than the
\* adjusted max, and otherwise it is raised to that minimum.
C10_MaxUnlessMin ==
    (LaidOutOk /\ ChildWithinConstraints) =>
        /\ constraints.max_width <= incoming.max_width
        /\ constraints.max_height <= incoming.max_height
        /\ result.val.width <= usize_max3(constraints.max_width, constraints.min_width,
                                          OptOr0(cfg.min_width))
        /\ result.val.height <= usize_max3(constraints.max_height, constraints.min_height,
                                           OptOr0(cfg.min_height))
        /\ result.val.width > constraints.max_width =>
              result.val.width = usize_max(constraints.min_width, OptOr0(cfg.min_width))
        /\ result.val.height > constraints.max_height =>
              result.val.height = usize_max(constraints.min_height, OptOr0(cfg.min_height))

C10_Witness ==
    /\ LaidOutOk /\ ChildWithinConstraints
    /\ cfg.border_size.width > 0
    /\ child_result.val.width = child_constraints.max_width
    /\ result.val.width = incoming.max_width
    /\ OptOr0(cfg.min_width) <= incoming.max_width

\* ---------------------------------------------------------------------------
\*   - Properties of ValueRef -
\* ---------------------------------------------------------------------------
NumVariant(value, variants) ==
    /\ value.tag = "Owned"
    /\ value.o.kind = "Num"
    /\ value.o.num.num \in variants

\* the shape each extraction target expects
ShapeMatches(t, value) ==
    CASE t = "bool" -> value.tag = "Owned" /\ value.o.kind = "Bool"
      [] t = "char" -> value.tag = "Owned" /\ value.o.kind = "Char"
      [] t = "Color" -> value.tag = "Owned" /\ value.o.kind = "Color"
      [] t \in IntTargets -> NumVariant(value, {"Signed", "Unsigned"})
      [] t \in FloatTargets -> NumVariant(value, {"Float"})
      [] t \in StrTargets -> value.tag = "Str"

NeverConvertible == {"Empty", "Deferred", "Map", "List", "Expressions", "ExpressionMap"}

\* C7: typed extraction succeeds exactly when the active tag has the
\* target's shape and otherwise returns the single payload-free error:
\* bool/char/Color only from Owned(Bool)/Owned(Char)/Owned(Color), every
\* integer target from Num(Signed) and Num(Unsigned) and nothing else
\* (unsigned from Signed(5) yields 5), floats only from Num(Float), String
\* and &str only from Str; Str never becomes a number, Bool never an integer,
\* and Empty/Deferred/Map/List/Expressions/ExpressionMap fail for every target.
C7_ExtractionByShape ==
    vop = "try_from" =>
        /\ vres.ok <=> ShapeMatches(target, lhs)
        /\ ~vres.ok => vres = ConvErr
        /\ lhs.tag \in NeverConvertible => ~vres.ok
        /\ (lhs.tag = "Str" /\ target \notin StrTargets) => ~vres.ok
        /\ (target \in IntTargets /\ lhs.tag = "Owned" /\ lhs.o.kind = "Bool") => ~vres.ok
        /\ (target \in IntTargets /\ NumVariant(lhs, {"Signed", "Unsigned"})
              /\ lhs.o.num.n >= 0 /\ lhs.o.num.n < 128) =>
              (vres.ok /\ vres.val = [pow2 |-> 0, off |-> lhs.o.num.n])
        /\ (vres.ok /\ target = "bool") => vres.val = lhs.o.b
        /\ (vres.ok /\ target \in {"char", "Color"}) => vres.val = lhs.o.c
        /\ (vres.ok /\ target \in StrTargets) => vres.val = lhs.s

C7_Witness ==
    /\ vop = "try_from"
    /\ target = "u8"
    /\ lhs = Owned(OwnedNum(Signed(5)))
    /\ vres.ok /\ vres.val = [pow2 |-> 0, off |-> 5]

Truthy ==
    {Str(s) : s \in Strings \ {<<>>}}
      \cup {Owned(OwnedBool(TRUE))}
      \cup {Owned(OwnedNum(Unsigned(n))) : n \in {m \in UnsignedNums : m > 0}}
      \cup {Owned(OwnedNum(Signed(n))) : n \in {m \in SignedNums : m > 0}}

\* C8: is_true is true exactly for a non-empty Str, Owned(Bool(true)),
\* Owned(Num(Unsigned(n))) with n > 0 and Owned(Num(Signed(n))) with n > 0,
\* and false for every other value.
C8_TruthTable ==
    vop = "is_true" => (vres <=> lhs \in Truthy)

C8_Witness ==
    /\ vop = "is_true"
    /\ lhs = Owned(OwnedNum(Float(2)))
    /\ vres = FALSE

IsNaN(o) == o.kind = "Num" /\ o.num.nan

\* C9: ValueRef equality holds only between two Str values with equal
\* strings or two Owned values with equal scalars; every other pairing is
\* unequal, including a Map, List, Expressions, ExpressionMap, Deferred or
\* Empty value compared with itself; equality is symmetric.
C9_EqualityOnlyStrOwned ==
    vop = "eq" =>
        /\ vres => (lhs.tag = rhs.tag /\ lhs.tag \in {"Str", "Owned"})
        /\ (lhs.tag = "Str" /\ rhs.tag = "Str") => (vres <=> lhs.s = rhs.s)
        /\ (lhs.tag = "Owned" /\ rhs.tag = "Owned") =>
              (vres <=> (lhs.o = rhs.o /\ ~IsNaN(lhs.o)))
        /\ (lhs = rhs /\ lhs.tag \in NeverConvertible) => ~vres
        /\ vres <=> value_eq(rhs, lhs)

C9_Witness ==
    /\ vop = "eq"
    /\ lhs = Map(1) /\ rhs = Map(1)
    /\ vres = FALSE
====
